---- MODULE Spec2Model ----
(***************************************************************************)
(* Model of the FPS overlay of src/src/main.js: the RingFIFO circular      *)
(* buffer, the FPSWidget rate sampler (calcFPS), the toggle() switch and   *)
(* the requestAnimationFrame tick chain (loop / draw).                     *)
(*                                                                         *)
(* The widget object is the record fps (the instance created at            *)
(* main.js:218).  The host is modelled by clock (performance.now() and the *)
(* frame timestamp), pending (callbacks registered with                    *)
(* requestAnimationFrame for the next frame) and firing (callbacks of the  *)
(* frame being delivered that have not run yet).  All callbacks of one     *)
(* frame receive the same timestamp, callbacks they register run in the    *)
(* next frame, and the message listener that calls toggle() is a task of   *)
(* its own, so it never runs between two callbacks of one frame.           *)
(*                                                                         *)
(* main.js builds the widget with graphSize 30; the model explores the     *)
(* class with graphSize 1..MaxSize so that the buffer wraps within         *)
(* MaxTime.  Time is in whole milliseconds.                                *)
(***************************************************************************)
EXTENDS Integers, Sequences, FiniteSets

VARIABLES
    status,     \* outcome of the constructor call: "new", "ok", "RangeError"
    args,       \* the constructor's arguments <<width, height, graphSize>>
    fps,        \* the FPSWidget object (its fields)
    clock,      \* host clock in ms
    pending,    \* number of callbacks registered for the next frame
    firing,     \* callbacks of the current frame that have not run yet
    canvas,     \* what the last draw() left on the drawing surface
    ev,         \* history: the last operation and the widget before it
    pushLog,    \* history: the last `size` values handed to RingFIFO.push
    pushes,     \* history: number of RingFIFO.push calls so far
    rateLog,    \* history: the last 5 instantaneous rates since the reset
    toggles,    \* history: number of toggle() calls so far
    ticksSinceOff, \* history: callbacks run since the last flip to disabled
    chain       \* history: spacing of the ticks of this enabled period

vars == <<status, args, fps, clock, pending, firing, canvas, ev, pushLog,
          pushes, rateLog, toggles, ticksSinceOff, chain>>

----------------------------------------------------------------------------
(* Bounds of the model *)

MaxSize == 3          \* largest graphSize explored
MaxTime == 700        \* the clock stops advancing here
MaxPending == 2       \* most callbacks registered for one frame
MaxToggles == 4       \* most toggle() calls in one run
MaxVal == 4           \* values pushed on a stand-alone RingFIFO are 1..MaxVal
MaxPushes == 7        \* most pushes on a stand-alone RingFIFO

FrameSteps == {80, 100}       \* ms between two frames
ToggleSteps == {0, 50}    \* ms between the previous event and a toggle()
ArgValues == {-1, 0, 1, 2, 3}  \* constructor arguments explored

(* Program constants *)
WindowMs == 100       \* main.js:139
HistoryLen == 5       \* main.js:143
MsPerSecond == 1000   \* main.js:140
DefaultWidth == 120   \* main.js:218
DefaultHeight == 80   \* main.js:218

----------------------------------------------------------------------------
(* Arithmetic helpers *)

RECURSIVE Sum(_)
\* Array.prototype.reduce((a, b) => a + b, 0)
Sum(s) == IF s = <<>> THEN 0 ELSE Head(s) + Sum(Tail(s))

\* what JavaScript's a / 0 is for a > 0; Math.round leaves it as it is
Infinity == 1000000

\* Math.round(a / b) for a >= 0, b >= 0: nearest integer, halves upwards
Round(a, b) == IF b = 0 THEN Infinity ELSE (2 * a + b) \div (2 * b)

Min(a, b) == IF a < b THEN a ELSE b

Last(s) == s[Len(s)]

\* the last n elements of s (all of s when it is shorter)
LastN(s, n) == SubSeq(s, Len(s) - Min(n, Len(s)) + 1, Len(s))

----------------------------------------------------------------------------
(* RingFIFO *)

\* constructor(size): size slots filled with 0, head 0, count 0
RingFIFO(size) ==
    [size |-> size, buffer |-> [i \in 1..size |-> 0], head |-> 0, count |-> 0]

\* push as it would be if a full buffer refused new values
push_dropsWhenFull(rb, val) ==
    IF rb.count < rb.size
    THEN [rb EXCEPT !.buffer = [rb.buffer EXCEPT ![rb.head + 1] = val],
                    !.head = (rb.head + 1) % rb.size,
                    !.count = rb.count + 1]
    ELSE rb

\* push as it would be if head advanced before the write
push_writesAfterAdvance(rb, val) ==
    [rb EXCEPT !.buffer = [rb.buffer EXCEPT ![((rb.head + 1) % rb.size) + 1] = val],
               !.head = (rb.head + 1) % rb.size,
               !.count = IF rb.count < rb.size THEN rb.count + 1 ELSE rb.count]

\* push as it would be if count did not saturate
push_countsPastSize(rb, val) ==
    [rb EXCEPT !.buffer = [rb.buffer EXCEPT ![rb.head + 1] = val],
               !.head = (rb.head + 1) % rb.size,
               !.count = rb.count + 1]

\* push(val)
push(rb, val) ==
    [rb EXCEPT !.buffer = [rb.buffer EXCEPT ![rb.head + 1] = val],
               !.head = (rb.head + 1) % rb.size,
               !.count = IF rb.count < rb.size THEN rb.count + 1 ELSE rb.count]

\* get as it would be with the upper bound test off by one
get_offByOne(rb, index) ==
    IF index < 0 \/ index > rb.count
    THEN 0
    ELSE LET start == (rb.head - rb.count + rb.size) % rb.size
         IN  rb.buffer[((start + index) % rb.size) + 1]

\* get(index)
get(rb, index) ==
    IF index < 0 \/ index >= rb.count
    THEN 0
    ELSE LET start == (rb.head - rb.count + rb.size) % rb.size
         IN  rb.buffer[((start + index) % rb.size) + 1]

\* get length()
length(rb) == rb.count

----------------------------------------------------------------------------
(* FPSWidget *)

\* constructor(width, height, graphSize): the fields the object ends up with
FPSWidget(width, height, graphSize) ==
    [enabled |-> FALSE, width |-> width, height |-> height,
     stack |-> RingFIFO(graphSize),
     frameCount |-> 0, lastTime |-> 0, frameHistory |-> <<>>]

\* new Array(size) throws RangeError for a negative size; nothing else in the
\* constructor checks its arguments
ConstructorOutcome(width, height, graphSize) ==
    IF graphSize < 0 THEN "RangeError" ELSE "ok"

\* toggle as it would be if enabling kept the old frameHistory
toggle_keepsHistory(w, now) ==
    IF w.enabled
    THEN [w EXCEPT !.enabled = FALSE]
    ELSE [w EXCEPT !.enabled = TRUE,
                   !.lastTime = now,
                   !.frameCount = 0]

\* toggle as it would be if enabling did not read the clock
toggle_keepsLastTime(w, now) ==
    IF w.enabled
    THEN [w EXCEPT !.enabled = FALSE]
    ELSE [w EXCEPT !.enabled = TRUE,
                   !.frameCount = 0,
                   !.frameHistory = <<>>]

\* toggle as it would be if enabling started from an empty graph
toggle_clearsBuffer(w, now) ==
    IF w.enabled
    THEN [w EXCEPT !.enabled = FALSE]
    ELSE [w EXCEPT !.enabled = TRUE,
                   !.lastTime = now,
                   !.frameCount = 0,
                   !.frameHistory = <<>>,
                   !.stack = RingFIFO(w.stack.size)]

\* toggle(): the object after the call; now is performance.now()
toggle(w, now) ==
    IF w.enabled
    THEN [w EXCEPT !.enabled = FALSE]
    ELSE [w EXCEPT !.enabled = TRUE,
                   !.lastTime = now,
                   !.frameCount = 0,
                   !.frameHistory = <<>>]

\* the window test as it would be with > in place of >=
producesSample_strict(w, currentTime) == currentTime - w.lastTime > WindowMs

\* the window test as it would be if any elapsed time closed a window
producesSample_anyElapsed(w, currentTime) == currentTime - w.lastTime >= 0

\* calcFPS: does this call close a window?
producesSample(w, currentTime) == currentTime - w.lastTime >= WindowMs

\* calcFPS: let fps = Math.round((this.frameCount * 1000) / deltaTime)
instantFPS(w, currentTime) ==
    Round((w.frameCount + 1) * MsPerSecond, currentTime - w.lastTime)

\* the history as it would be without the shift()
remember_neverEvicts(hist, rate) == Append(hist, rate)

\* the history as it would be with pop() in place of shift()
remember_evictsNewest(hist, rate) ==
    LET pushed == Append(hist, rate)
    IN  IF Len(pushed) > HistoryLen THEN SubSeq(pushed, 1, HistoryLen)
        ELSE pushed

\* calcFPS: frameHistory.push(fps); if (length > 5) frameHistory.shift()
remember(hist, rate) ==
    LET pushed == Append(hist, rate)
    IN  IF Len(pushed) > HistoryLen THEN Tail(pushed) ELSE pushed

\* the average as it would be if it always divided by 5
avgFPS_dividesByFive(hist) == Round(Sum(hist), HistoryLen)

\* calcFPS: let avgFPS = Math.round(reduce(...) / frameHistory.length)
avgFPS(hist) == Round(Sum(hist), Len(hist))

\* calcFPS as it would be without `this.frameCount = 0`
calcFPS_keepsCounting(w, currentTime) ==
    IF producesSample(w, currentTime)
    THEN LET hist == remember(w.frameHistory, instantFPS(w, currentTime))
         IN  [w EXCEPT !.frameHistory = hist,
                       !.stack = push(w.stack, avgFPS(hist)),
                       !.lastTime = currentTime,
                       !.frameCount = w.frameCount + 1]
    ELSE [w EXCEPT !.frameCount = w.frameCount + 1]

\* calcFPS(currentTime): the object after the call
calcFPS(w, currentTime) ==
    IF producesSample(w, currentTime)
    THEN LET hist == remember(w.frameHistory, instantFPS(w, currentTime))
         IN  [w EXCEPT !.frameHistory = hist,
                       !.stack = push(w.stack, avgFPS(hist)),
                       !.lastTime = currentTime,
                       !.frameCount = 0]
    ELSE [w EXCEPT !.frameCount = w.frameCount + 1]

\* calcFPS: the divisors of its two divisions, in a call that closes a window
divisors(w, currentTime) ==
    IF producesSample(w, currentTime)
    THEN {currentTime - w.lastTime,
          Len(remember(w.frameHistory, instantFPS(w, currentTime)))}
    ELSE {}

\* loop as it would be if it never registered a callback
loop_neverSchedules(w) == 0

\* loop as it would be without the test of this.enabled
loop_alwaysSchedules(w) == 1

\* loop(): number of callbacks it registers with requestAnimationFrame
loop(w) == IF w.enabled THEN 1 ELSE 0

\* draw as it would be if the label showed get(0)
draw_labelsOldest(w) ==
    LET bufferLength == length(w.stack)
    IN  IF bufferLength > 0
        THEN [points |-> [i \in 1..bufferLength |-> get(w.stack, i - 1)],
              label |-> <<get(w.stack, 0)>>]
        ELSE [points |-> <<>>, label |-> <<>>]

\* draw(): the surface after the call: the polyline's values, oldest first,
\* and the label (a sequence of zero or one value)
draw(w) ==
    LET bufferLength == length(w.stack)
    IN  IF bufferLength > 0
        THEN [points |-> [i \in 1..bufferLength |-> get(w.stack, i - 1)],
              label |-> <<get(w.stack, bufferLength - 1)>>]
        ELSE [points |-> <<>>, label |-> <<>>]

\* the body of the callback given to requestAnimationFrame:
\* calcFPS(currentTime); draw(); loop();
callback(w, currentTime) == calcFPS(w, currentTime)

----------------------------------------------------------------------------
(* History bookkeeping *)

\* op: the operation that ran last; prevOp: the one before it; now: the clock
\* value the operation read; prevNow: the one the operation before read;
\* pre, prePending, preCanvas: the state before it;
\* pushed, drew, scheduled: whether it called push, draw, and how many
\* callbacks it registered
Event(op, prevOp, now, pushed, drew, scheduled) ==
    [op |-> op, prevOp |-> prevOp, now |-> now, prevNow |-> ev.now, pre |-> fps,
     prePending |-> pending, preCanvas |-> canvas, pushed |-> pushed,
     drew |-> drew, scheduled |-> scheduled]

\* live: the enabled period started with no callback registered and every
\* callback since ran enabled, in a frame of its own, at a steady interval;
\* lead: ms from the enabling toggle() to the first tick (0: no tick yet);
\* d: ms between consecutive ticks (0: fewer than two ticks); last: time of
\* the last tick, or of the toggle()
NoChain == [live |-> FALSE, lead |-> 0, d |-> 0, last |-> 0]

TickOnChain(c, enabled, now) ==
    LET gap == now - c.last
        ok == /\ c.live
              /\ enabled
              /\ gap > 0
              /\ c.lead = 0 \/ c.d \in {0, gap}
    IN  IF ~ok THEN NoChain
        ELSE IF c.lead = 0
             THEN [live |-> TRUE, lead |-> gap, d |-> 0, last |-> now]
             ELSE [live |-> TRUE, lead |-> c.lead, d |-> gap, last |-> now]

----------------------------------------------------------------------------
(* Initial states *)

BlankCanvas == [points |-> <<>>, label |-> <<>>]

InitHistory ==
    /\ ev = [op |-> "init", prevOp |-> "init", now |-> 0, prevNow |-> 0,
             pre |-> fps,
             prePending |-> 0, preCanvas |-> BlankCanvas, pushed |-> FALSE,
             drew |-> FALSE, scheduled |-> 0]
    /\ pushLog = <<>>
    /\ pushes = 0
    /\ rateLog = <<>>
    /\ toggles = 0
    /\ ticksSinceOff = 0
    /\ chain = NoChain

\* the state after `new FPSWidget(width, height, graphSize)` succeeded
Init ==
    /\ status = "ok"
    /\ \E graphSize \in 1..MaxSize :
          /\ args = <<DefaultWidth, DefaultHeight, graphSize>>
          /\ fps = FPSWidget(DefaultWidth, DefaultHeight, graphSize)
    /\ clock = 0
    /\ pending = 0
    /\ firing = 0
    /\ canvas = BlankCanvas
    /\ InitHistory

----------------------------------------------------------------------------
(* Actions *)

\* the message listener of main.js:220 calls fps.toggle(), dt ms after the
\* previous event; the enabling branch ends with this.loop()
Toggle(dt) ==
    /\ status = "ok"
    /\ firing = 0
    /\ toggles < MaxToggles
    /\ toggles' = toggles + 1
    /\ clock + dt <= MaxTime
    /\ pending + loop(toggle(fps, clock + dt)) <= MaxPending \/ fps.enabled
    /\ clock' = clock + dt
    /\ fps' = toggle(fps, clock')
    /\ pending' = IF fps.enabled THEN pending ELSE pending + loop(fps')
    /\ ev' = Event("toggle", ev.op, clock + dt, FALSE, FALSE, pending' - pending)
    /\ rateLog' = IF fps.enabled THEN rateLog ELSE <<>>
    /\ ticksSinceOff' = 0
    /\ chain' = IF fps.enabled \/ pending > 0 THEN NoChain
                ELSE [live |-> TRUE, lead |-> 0, d |-> 0, last |-> clock']
    /\ UNCHANGED <<status, args, firing, canvas, pushLog, pushes>>

\* the host starts a frame: the callbacks registered so far will run with
\* the frame's timestamp. The clock stops at MaxTime for an enabled widget;
\* the frame that follows a flip to disabled is always delivered.
Frame(dt) ==
    /\ status = "ok"
    /\ firing = 0
    /\ pending > 0
    /\ clock + dt <= MaxTime \/ (~fps.enabled /\ clock <= MaxTime)
    /\ clock' = clock + dt
    /\ firing' = pending
    /\ pending' = 0
    /\ ev' = Event("frame", ev.op, clock + dt, FALSE, FALSE, 0)
    /\ UNCHANGED <<status, args, fps, canvas, pushLog, pushes, rateLog,
                   toggles, ticksSinceOff, chain>>

\* one callback of the current frame runs: calcFPS(currentTime); draw();
\* loop(). The callback itself does not test this.enabled; only loop() does.
Tick ==
    /\ firing > 0
    /\ firing' = firing - 1
    /\ fps' = callback(fps, clock)
    /\ canvas' = draw(fps')
    /\ pending' = pending + loop(fps')
    /\ ev' = Event("tick", ev.op, clock, producesSample(fps, clock), TRUE,
                   loop(fps'))
    /\ pushLog' = IF producesSample(fps, clock)
                  THEN LastN(Append(pushLog,
                               avgFPS(remember(fps.frameHistory,
                                               instantFPS(fps, clock)))),
                             fps.stack.size)
                  ELSE pushLog
    /\ pushes' = IF producesSample(fps, clock) THEN pushes + 1 ELSE pushes
    /\ rateLog' = IF producesSample(fps, clock)
                  THEN LastN(Append(rateLog, instantFPS(fps, clock)),
                             HistoryLen)
                  ELSE rateLog
    /\ ticksSinceOff' = Min(ticksSinceOff + 1, MaxPending + 1)
    /\ chain' = TickOnChain(chain, fps.enabled, clock)
    /\ UNCHANGED <<status, args, clock, toggles>>

Next ==
    \/ \E dt \in ToggleSteps : Toggle(dt)
    \/ \E dt \in FrameSteps : Frame(dt)
    \/ Tick

Spec == Init /\ [][Next]_vars

\* the host delivers a frame whenever callbacks are registered, and runs
\* every callback of a frame it has started
FrameDelivered == \E dt \in FrameSteps : Frame(dt)

SpecFair == Init /\ [][Next]_vars /\ WF_vars(FrameDelivered) /\ WF_vars(Tick)

----------------------------------------------------------------------------
(* A RingFIFO on its own: arbitrary values pushed *)

RingPush(val) ==
    /\ pushes < MaxPushes
    /\ pushes' = pushes + 1
    /\ fps' = [fps EXCEPT !.stack = push(fps.stack, val)]
    /\ pushLog' = LastN(Append(pushLog, val), fps.stack.size)
    /\ ev' = Event("push", ev.op, clock, TRUE, FALSE, 0)
    /\ UNCHANGED <<status, args, clock, pending, firing, canvas, rateLog,
                   toggles, ticksSinceOff, chain>>

NextRing == \E val \in 1..MaxVal : RingPush(val)

SpecRing == Init /\ [][NextRing]_vars

----------------------------------------------------------------------------
(* Construction with arbitrary arguments *)

InitCtor ==
    /\ status = "new"
    /\ args \in ArgValues \X ArgValues \X ArgValues
    /\ fps = FPSWidget(0, 0, 0)
    /\ clock = 0
    /\ pending = 0
    /\ firing = 0
    /\ canvas = BlankCanvas
    /\ InitHistory

\* let fps = new FPSWidget(width, height, graphSize)
Construct ==
    /\ status = "new"
    /\ status' = ConstructorOutcome(args[1], args[2], args[3])
    /\ fps' = IF status' = "ok" THEN FPSWidget(args[1], args[2], args[3])
              ELSE fps
    /\ ev' = Event("construct", ev.op, clock, FALSE, FALSE, 0)
    /\ UNCHANGED <<args, clock, pending, firing, canvas, pushLog, pushes,
                   rateLog, toggles, ticksSinceOff, chain>>

NextCtor == Construct

SpecCtor == InitCtor /\ [][NextCtor]_vars

----------------------------------------------------------------------------
(* Properties *)

\* the value that get returns for the newest element
Newest(rb) == get(rb, length(rb) - 1)

\* C1: once a RingFIFO of capacity N has received N + k pushes (k >= 0), its
\* length is N and get(i) is the (k+1+i)-th pushed value for every i in
\* 0..N-1: get(0) is the oldest retained value, get(N-1) the newest.
C1_KeepsLastN ==
    Len(pushLog) = fps.stack.size =>
        /\ length(fps.stack) = fps.stack.size
        /\ \A i \in 0..(fps.stack.size - 1) : get(fps.stack, i) = pushLog[i + 1]

\* scenario A: capacity 3 after push(1), push(2), push(3), push(4)
C1_ScenarioA ==
    /\ fps.stack.size = 3
    /\ ev.op = "push"
    /\ ev.pre.stack.count = 3
    /\ pushLog = <<2, 3, 4>>
    /\ fps.stack.head = 1

\* C2: a callback that runs while the widget is disabled changes neither the
\* buffer nor the sampler, does not redraw and registers no further callback.
C2_StrayTickIsInert ==
    (ev.op = "tick" /\ ~ev.pre.enabled) =>
        /\ fps = ev.pre
        /\ ~ev.drew
        /\ canvas = ev.preCanvas
        /\ ev.scheduled = 0
        /\ pending = ev.prePending

\* C3: while the widget stays disabled after a flip to disabled, at most one
\* callback runs.
C3_AtMostOneStrayTick == ~fps.enabled => ticksSinceOff <= 1

\* C4: get(i) is 0 for every i < 0 and every i >= length, whatever the store
\* holds.
C4_OutOfRangeIsZero ==
    \A i \in (-(MaxSize + 1))..(2 * MaxSize + 1) :
        (i < 0 \/ i >= length(fps.stack)) => get(fps.stack, i) = 0

\* a full buffer that has wrapped and holds no zero
C4_WrappedNonZero ==
    /\ ev.op = "push"
    /\ ev.pre.stack.count = fps.stack.size
    /\ fps.stack.size > 1
    /\ \A i \in 1..fps.stack.size : fps.stack.buffer[i] > 0

\* C5: whenever a callback produces a sample, the value pushed is the rounded
\* mean of the last min(5, n) instantaneous rates since the sampler was reset,
\* and those are the rates the sampler holds (oldest evicted first).
C5_SmoothedIsMeanOfLastFive ==
    (ev.op = "tick" /\ ev.pushed) =>
        /\ fps.frameHistory = rateLog
        /\ Newest(fps.stack) = Round(Sum(rateLog), Len(rateLog))

\* a sixth window whose rate differs from the evicted one
C5_EvictionHappened ==
    /\ ev.op = "tick"
    /\ ev.pushed
    /\ Len(ev.pre.frameHistory) = HistoryLen
    /\ Head(ev.pre.frameHistory) # Last(rateLog)
    /\ Head(ev.pre.frameHistory) # Head(rateLog)

\* every instantaneous rate held, and the value just pushed, equal
\* round(1000 / d)
RatesAre(d) ==
    /\ \A i \in 1..Len(fps.frameHistory) :
          fps.frameHistory[i] = Round(MsPerSecond, d)
    /\ (ev.op = "tick" /\ ev.pushed) =>
          Newest(fps.stack) = Round(MsPerSecond, d)

\* C6: when the ticks of an enabled period arrive on a single chain at a steady
\* interval d, every window's instantaneous rate is round(1000 / d), and so is
\* every smoothed value pushed.
C6_SteadyTicks == (chain.live /\ chain.d > 0) => RatesAre(chain.d)

\* C6 (amended): the same, provided the first tick also arrives d ms after
\* the enabling toggle() read the clock.
C6_SteadyRate ==
    (chain.live /\ chain.lead > 0 /\ chain.d \in {0, chain.lead}) =>
        RatesAre(chain.lead)

\* scenario B: five windows of one tick each, 100 ms apart
C6_ScenarioB ==
    /\ chain.live
    /\ chain.lead = 100
    /\ chain.d = 100
    /\ ev.op = "tick"
    /\ ev.pushed
    /\ fps.frameHistory = <<10, 10, 10, 10, 10>>
    /\ Newest(fps.stack) = 10

\* a window of two ticks 80 ms apart: 12.5 rounds to 13
C6_RoundsHalfUp ==
    /\ chain.live
    /\ chain.lead = 80
    /\ chain.d = 80
    /\ ev.pushed
    /\ Last(fps.frameHistory) = 13

\* C7: a constructor call with a non-positive width, height or graphSize
\* fails with ConfigurationError.
C7_InvalidArgsRejected ==
    (status # "new" /\ \E i \in 1..3 : args[i] <= 0) =>
        status = "ConfigurationError"

\* C8: two toggle() calls in a row on a disabled widget leave it disabled with
\* the sampler fields of a freshly constructed widget.
C8_AsFreshlyConstructed ==
    (ev.op = "toggle" /\ ev.prevOp = "toggle" /\ ~fps.enabled) =>
        /\ fps.frameCount = 0
        /\ fps.lastTime = 0
        /\ fps.frameHistory = <<>>

\* C8 (amended): two toggle() calls in a row on a disabled widget leave it
\* disabled with frameCount 0 and an empty frameHistory, and lastTime is the
\* clock value the first of the two calls read.
C8_TwoTogglesResetSampler ==
    (ev.op = "toggle" /\ ev.prevOp = "toggle" /\ ~fps.enabled) =>
        /\ fps.frameCount = 0
        /\ fps.frameHistory = <<>>
        /\ fps.lastTime = ev.prevNow

\* on and off again at a later time, after a period that produced samples
C8_OnOffAfterUse ==
    /\ ev.op = "toggle"
    /\ ev.prevOp = "toggle"
    /\ ~fps.enabled
    /\ fps.lastTime > 0
    /\ length(fps.stack) > 0

\* C9: right after a toggle() on a disabled widget, the widget is enabled,
\* frameCount is 0, frameHistory is empty, lastTime is the clock value the
\* call read, and one more callback is registered.
C9_EnableResetsSampler ==
    (ev.op = "toggle" /\ ~ev.pre.enabled) =>
        /\ fps.enabled
        /\ fps.frameCount = 0
        /\ fps.frameHistory = <<>>
        /\ fps.lastTime = ev.now
        /\ ev.scheduled = 1
        /\ pending = ev.prePending + 1

\* enabling over what an earlier period and its stray tick left behind
C9_EnableOverStaleState ==
    /\ ev.op = "toggle"
    /\ ~ev.pre.enabled
    /\ ev.prevOp = "tick"
    /\ ev.pre.frameCount > 0
    /\ ev.pre.frameHistory # <<>>
    /\ ev.now > ev.pre.lastTime

\* C10: toggle() leaves the RingFIFO as it was, in both directions.
C10_ToggleKeepsBuffer ==
    (ev.op = "toggle") =>
        /\ fps.stack = ev.pre.stack
        /\ \A i \in 0..(fps.stack.size - 1) :
              get(fps.stack, i) = get(ev.pre.stack, i)

\* re-enabled with samples of an earlier period still readable
C10_ReenabledWithHistory ==
    /\ ev.op = "toggle"
    /\ fps.enabled
    /\ toggles >= 3
    /\ length(fps.stack) > 0
    /\ get(fps.stack, 0) > 0

\* C11: the buffer's logical contents get(0..length-1) are the last
\* min(pushes, capacity) smoothed samples produced since construction, in
\* the order the ticks produced them, in every state.
C11_BufferIsLatestSamples ==
    /\ length(fps.stack) = Len(pushLog)
    /\ length(fps.stack) = Min(pushes, fps.stack.size)
    /\ \A i \in 0..(length(fps.stack) - 1) : get(fps.stack, i) = pushLog[i + 1]

\* a wrapped buffer holding samples of two enabled periods
C11_WrappedAcrossPeriods ==
    /\ ev.op = "tick"
    /\ ev.pushed
    /\ toggles >= 3
    /\ fps.stack.size >= 2
    /\ pushes > fps.stack.size
    /\ pushLog[1] # pushLog[2]

\* C12: a tick with timestamp t pushes exactly one value and sets frameCount
\* to 0 and lastTime to t if and only if t - lastTime >= 100; any other tick
\* only adds 1 to frameCount.
C12_TickEffect ==
    (ev.op = "tick") =>
        IF ev.now - ev.pre.lastTime >= WindowMs
        THEN /\ fps.stack = push(ev.pre.stack, Newest(fps.stack))
             /\ pushes > 0
             /\ Len(fps.frameHistory) = Min(Len(ev.pre.frameHistory) + 1, HistoryLen)
             /\ fps.frameCount = 0
             /\ fps.lastTime = ev.now
             /\ fps.enabled = ev.pre.enabled
        ELSE fps = [ev.pre EXCEPT !.frameCount = ev.pre.frameCount + 1]

\* a tick exactly 100 ms after the window started
C12_WindowOfExactly100 ==
    /\ ev.op = "tick"
    /\ ev.now - ev.pre.lastTime = WindowMs
    /\ ev.pre.lastTime > 0
    /\ fps.frameCount = 0
    /\ fps.lastTime = ev.now

\* C13: at most one callback is registered and not yet run, in every state.
C13_AtMostOnePending == pending + firing <= 1

\* C14: 0 <= count <= N, 0 <= head <= N-1, head is the number of pushes
\* mod N, count is min(pushes, N) and never decreases, and the oldest
\* retained element is at store[(head - count + N) mod N].
C14_RingInvariant ==
    LET rb == fps.stack
    IN  /\ 0 <= rb.count /\ rb.count <= rb.size
        /\ 0 <= rb.head /\ rb.head <= rb.size - 1
        /\ rb.head = pushes % rb.size
        /\ rb.count = Min(pushes, rb.size)
        /\ rb.count >= ev.pre.stack.count
        /\ rb.count > 0 =>
              rb.buffer[((rb.head - rb.count + rb.size) % rb.size) + 1]
                  = pushLog[1]

\* a buffer of capacity 3 that has wrapped more than once
C14_WrappedTwice ==
    /\ ev.op = "push"
    /\ fps.stack.size = 3
    /\ pushes = 7
    /\ fps.stack.head = 1
    /\ pushLog[1] # pushLog[2]

\* C15: frameHistory holds at most 5 entries, every entry is a non-negative
\* integer, and so is every value in the buffer.
C15_RatesBounded ==
    /\ Len(fps.frameHistory) <= HistoryLen
    /\ \A i \in 1..Len(fps.frameHistory) : fps.frameHistory[i] \in Nat
    /\ \A i \in 1..fps.stack.size : fps.stack.buffer[i] \in Nat
    /\ \A i \in 1..Len(pushLog) : pushLog[i] \in Nat

\* a seventh window closes on a full frameHistory
C15_FullHistory ==
    /\ ev.op = "tick"
    /\ ev.pushed
    /\ Len(ev.pre.frameHistory) = HistoryLen
    /\ Len(fps.frameHistory) = HistoryLen
    /\ pushes >= 7

\* no callback is registered and none is waiting to run
Quiet == pending = 0 /\ firing = 0

\* a frame can still be delivered within the time explored
CanDeliver == \E dt \in FrameSteps : clock + dt <= MaxTime

\* C16: while the widget is enabled at least one callback is registered or
\* waiting to run, every tick that ends enabled registers the next one, and
\* with frames delivered fairly an enabled widget never waits for ever for
\* its next frame and the callbacks of every frame all run, so ticks keep
\* being processed.
C16_ChainStaysAlive ==
    /\ [](fps.enabled => pending + firing >= 1)
    /\ []((ev.op = "tick" /\ fps.enabled) => ev.scheduled = 1)
    /\ []<>(~(fps.enabled /\ firing = 0 /\ CanDeliver))
    /\ []<>(firing = 0)

\* an enabled widget after several ticks, the next one registered
C16_ChainRunning ==
    /\ fps.enabled
    /\ ev.op = "tick"
    /\ ev.scheduled = 1
    /\ pending = 1
    /\ firing = 0
    /\ pushes >= 3

\* C17: nothing is registered initially; once the widget stays disabled,
\* with frames delivered fairly it ends up with no callback registered for
\* good, and from then on the widget's buffer and sampler do not change.
C17_DisabledGoesQuiet ==
    /\ Quiet
    /\ (<>[](~fps.enabled)) => <>[]Quiet
    /\ [][(~fps.enabled /\ Quiet /\ ~fps'.enabled) => (fps' = fps /\ Quiet')]_vars

\* quiet after the stray tick of a period that produced samples
C17_QuietAfterStrayTick ==
    /\ ~fps.enabled
    /\ Quiet
    /\ ev.op = "tick"
    /\ ~ev.pre.enabled
    /\ pushes >= 2

\* the timestamps tried on every sampler state, relative to lastTime
Offsets == {-100, -1, 0, 1, 99, 100, 101, 250}

\* C18: calcFPS divides by zero for no timestamp, in any sampler state,
\* timestamps earlier than lastTime included: a rate is computed only when
\* the elapsed time is at least 100, the mean only over a non-empty
\* frameHistory.
C18_NoDivisionByZero ==
    /\ \A o \in Offsets :
          /\ 0 \notin divisors(fps, fps.lastTime + o)
          /\ divisors(fps, fps.lastTime + o) # {} <=> o >= WindowMs
    /\ (ev.op = "tick" /\ ev.pushed) =>
          /\ 0 \notin divisors(ev.pre, ev.now)
          /\ fps.frameHistory # <<>>

\* the second callback of a frame: no time has passed since the window
\* started, and the history was empty when the first one closed its window
C18_ZeroElapsed ==
    /\ ev.op = "tick"
    /\ ev.prevOp = "tick"
    /\ ev.now = ev.pre.lastTime
    /\ ~ev.pushed
    /\ Len(fps.frameHistory) = 1

\* C19: after a tick the surface shows the buffer's values oldest to newest
\* and the label is the most recently pushed sample; nothing but the cleared
\* background is shown while the buffer is empty; drawing leaves the widget
\* as calcFPS left it.
C19_DrawShowsBuffer ==
    (ev.op = "tick") =>
        /\ canvas.points = pushLog
        /\ canvas.label = IF pushLog = <<>> THEN <<>> ELSE <<Last(pushLog)>>
        /\ fps = calcFPS(ev.pre, ev.now)
        /\ ev.drew

\* a tick that pushed a sample and labelled the graph with it
C19_LabelIsNewSample ==
    /\ ev.op = "tick"
    /\ ev.pushed
    /\ Len(canvas.points) >= 2
    /\ canvas.points[1] # Last(canvas.points)
    /\ canvas.label = <<Last(pushLog)>>

\* a tick that drew an empty buffer
C19_NothingToDraw ==
    /\ ev.op = "tick"
    /\ length(fps.stack) = 0
    /\ canvas = BlankCanvas

\* C20: every smoothed value lies between the smallest and the largest
\* rate in frameHistory at the moment it is computed.
C20_SmoothedWithinRange ==
    (ev.op = "tick" /\ ev.pushed) =>
        /\ \E i \in 1..Len(fps.frameHistory) :
              fps.frameHistory[i] <= Newest(fps.stack)
        /\ \E i \in 1..Len(fps.frameHistory) :
              fps.frameHistory[i] >= Newest(fps.stack)

\* a smoothed value strictly between the smallest and the largest rate
C20_StrictlyBetween ==
    /\ ev.op = "tick"
    /\ ev.pushed
    /\ \E i \in 1..Len(fps.frameHistory) :
          fps.frameHistory[i] < Newest(fps.stack)
    /\ \E i \in 1..Len(fps.frameHistory) :
          fps.frameHistory[i] > Newest(fps.stack)

====
